---- MODULE Spec2Model ----
(***************************************************************************)
(* A model of personal-finance-manager.py: the CSV persistence of the      *)
(* transaction list (save_transactions_to_csv, load_transactions_from_csv),*)
(* the FinanceApp handlers that change the list (add, edit, delete, clear  *)
(* all), input validation, and the filter.                                 *)
(*                                                                         *)
(* Text is modelled character by character: a Python str is a sequence of  *)
(* one-character strings, so that strip(), lower(), the substring test,    *)
(* float(), strptime() and the csv quoting are computed, not assumed.      *)
(* Domain of the model: no line breaks inside a field, no unbalanced quote *)
(* in a hand-written line, amounts with at most two fractional digits and  *)
(* no exponent.                                                            *)
(***************************************************************************)
EXTENDS Integers, Sequences, FiniteSets, TLC

(* ------------------------------------------------------------------ *)
(* Python str helpers                                                  *)
(* ------------------------------------------------------------------ *)

IsSpace(c) == c \in {" ", "\t"}

RECURSIVE LStrip(_)
LStrip(s) ==
  IF s = <<>> THEN s
  ELSE IF IsSpace(Head(s)) THEN LStrip(Tail(s)) ELSE s

RECURSIVE RStrip(_)
RStrip(s) ==
  IF s = <<>> THEN s
  ELSE IF IsSpace(s[Len(s)]) THEN RStrip(SubSeq(s, 1, Len(s) - 1)) ELSE s

\* str.strip()
Strip(s) == RStrip(LStrip(s))

UpperLetters ==
  <<"A","B","C","D","E","F","G","H","I","J","K","L","M",
    "N","O","P","Q","R","S","T","U","V","W","X","Y","Z">>

LowerLetters ==
  <<"a","b","c","d","e","f","g","h","i","j","k","l","m",
    "n","o","p","q","r","s","t","u","v","w","x","y","z">>

LowerChar(c) ==
  IF \E i \in 1..Len(UpperLetters) : UpperLetters[i] = c
  THEN LowerLetters[CHOOSE i \in 1..Len(UpperLetters) : UpperLetters[i] = c]
  ELSE c

\* str.lower()
Lower(s) == [i \in 1..Len(s) |-> LowerChar(s[i])]

\* sub in s
Contains(sub, s) ==
  \E i \in 0..(Len(s) - Len(sub)) : SubSeq(s, i + 1, i + Len(sub)) = sub

\* "".join(parts)
RECURSIVE Join(_)
Join(parts) ==
  IF parts = <<>> THEN <<>> ELSE Head(parts) \o Join(Tail(parts))

Digits == <<"0","1","2","3","4","5","6","7","8","9">>

IsDigit(c) == \E i \in 1..10 : Digits[i] = c

DigitVal(c) == (CHOOSE i \in 1..10 : Digits[i] = c) - 1

AllDigits(s) == \A i \in 1..Len(s) : IsDigit(s[i])

\* value of a non-empty digit string
RECURSIVE DigitsVal(_)
DigitsVal(s) ==
  IF s = <<>> THEN 0
  ELSE DigitsVal(SubSeq(s, 1, Len(s) - 1)) * 10 + DigitVal(s[Len(s)])

\* decimal digits of n >= 0
RECURSIVE NatStr(_)
NatStr(n) ==
  IF n < 10 THEN <<Digits[n + 1]>>
  ELSE NatStr(n \div 10) \o <<Digits[(n % 10) + 1]>>

\* position of the first c in s, 0 if there is none
FirstIndex(c, s) ==
  IF \E i \in 1..Len(s) : s[i] = c
  THEN CHOOSE i \in 1..Len(s) : s[i] = c /\ \A j \in 1..(i - 1) : s[j] # c
  ELSE 0

(* ------------------------------------------------------------------ *)
(* float(): a float is [cls, hundredths]; cls is "finite", "inf"       *)
(* (hundredths is the sign) or "nan". Finite values are exact in       *)
(* hundredths.                                                         *)
(* ------------------------------------------------------------------ *)

FloatError == [ok |-> FALSE, val |-> [cls |-> "nan", hundredths |-> 0]]

FloatOk(c, h) == [ok |-> TRUE, val |-> [cls |-> c, hundredths |-> h]]

\* the unsigned body of a float literal
ParseUnsigned(b, sign) ==
  LET lb  == Lower(b)
      dot == FirstIndex(".", b)
      ip  == IF dot = 0 THEN b ELSE SubSeq(b, 1, dot - 1)
      fp  == IF dot = 0 THEN <<>> ELSE SubSeq(b, dot + 1, Len(b))
      fv  == IF Len(fp) = 0 THEN 0
             ELSE IF Len(fp) = 1 THEN DigitVal(fp[1]) * 10
             ELSE DigitsVal(SubSeq(fp, 1, 2))
  IN  IF lb \in {<<"i","n","f">>, <<"i","n","f","i","n","i","t","y">>}
        THEN FloatOk("inf", sign)
      ELSE IF lb = <<"n","a","n">> THEN FloatOk("nan", 0)
      ELSE IF /\ AllDigits(ip) /\ AllDigits(fp)
              /\ Len(ip) + Len(fp) > 0
        THEN FloatOk("finite", sign * (DigitsVal(ip) * 100 + fv))
      ELSE FloatError

\* float(s): [ok |-> FALSE] stands for ValueError
FloatOf(s) ==
  LET t == Strip(s)
  IN  IF t = <<>> THEN FloatError
      ELSE IF Head(t) = "-" THEN ParseUnsigned(Tail(t), -1)
      ELSE IF Head(t) = "+" THEN ParseUnsigned(Tail(t), 1)
      ELSE ParseUnsigned(t, 1)

\* repr(x) of a float, which is what csv.writer writes for it
FloatRepr(x) ==
  IF x.cls = "nan" THEN <<"n","a","n">>
  ELSE IF x.cls = "inf"
    THEN (IF x.hundredths < 0 THEN <<"-">> ELSE <<>>) \o <<"i","n","f">>
  ELSE
    LET a  == IF x.hundredths < 0 THEN 0 - x.hundredths ELSE x.hundredths
        f  == a % 100
        fs == IF f % 10 = 0 THEN <<Digits[(f \div 10) + 1]>>
              ELSE <<Digits[(f \div 10) + 1], Digits[(f % 10) + 1]>>
    IN  (IF x.hundredths < 0 THEN <<"-">> ELSE <<>>)
          \o NatStr(a \div 100) \o <<".">> \o fs

\* x <= 0 on floats (false for nan)
FloatLeZero(x) ==
  \/ x.cls = "finite" /\ x.hundredths <= 0
  \/ x.cls = "inf" /\ x.hundredths < 0

\* x == y on floats (nan equals nothing)
FloatEq(x, y) == x.cls # "nan" /\ y.cls # "nan" /\ x = y

(* ------------------------------------------------------------------ *)
(* datetime.datetime.strptime(s, '%Y-%m-%d')                           *)
(* ------------------------------------------------------------------ *)

DateError == [ok |-> FALSE, y |-> 0, m |-> 0, d |-> 0]

IsLeap(y) == (y % 4 = 0 /\ y % 100 # 0) \/ y % 400 = 0

DaysInMonth(y, m) ==
  IF m = 2 THEN (IF IsLeap(y) THEN 29 ELSE 28)
  ELSE IF m \in {4, 6, 9, 11} THEN 30 ELSE 31

\* %m: 1[0-2] | 0[1-9] | [1-9]
MonthField(s) ==
  /\ Len(s) \in {1, 2}
  /\ AllDigits(s)
  /\ DigitsVal(s) \in 1..12

\* %d: 3[01] | [12]\d | 0[1-9] | [1-9] | " "[1-9]
DayField(s) ==
  \/ Len(s) \in {1, 2} /\ AllDigits(s) /\ DigitsVal(s) \in 1..31
  \/ Len(s) = 2 /\ s[1] = " " /\ IsDigit(s[2]) /\ DigitVal(s[2]) >= 1

StrptimeOf(s) ==
  IF Len(s) < 8 \/ ~AllDigits(SubSeq(s, 1, 4)) \/ s[5] # "-" THEN DateError
  ELSE
    LET rest == SubSeq(s, 6, Len(s))
        dash == FirstIndex("-", rest)
        ms   == SubSeq(rest, 1, dash - 1)
        ds   == SubSeq(rest, dash + 1, Len(rest))
        y    == DigitsVal(SubSeq(s, 1, 4))
    IN  IF dash = 0 \/ ~MonthField(ms) \/ ~DayField(ds) THEN DateError
        ELSE
          LET m == DigitsVal(ms)
              d == DigitsVal(Strip(ds))
          IN  IF y < 1 \/ d > DaysInMonth(y, m) THEN DateError
              ELSE [ok |-> TRUE, y |-> y, m |-> m, d |-> d]

\* the order of datetime.date values
DateKey(p) == p.y * 10000 + p.m * 100 + p.d

(* ------------------------------------------------------------------ *)
(* csv.writer / csv.reader on one line (default dialect)               *)
(* ------------------------------------------------------------------ *)

NeedsQuote(f) == \E i \in 1..Len(f) : f[i] \in {",", "\"", "\n", "\r"}

RECURSIVE DoubleQuotes(_)
DoubleQuotes(f) ==
  IF f = <<>> THEN <<>>
  ELSE IF Head(f) = "\"" THEN <<"\"", "\"">> \o DoubleQuotes(Tail(f))
  ELSE <<Head(f)>> \o DoubleQuotes(Tail(f))

CsvField(f) ==
  IF NeedsQuote(f) THEN <<"\"">> \o DoubleQuotes(f) \o <<"\"">> ELSE f

RECURSIVE CsvJoin(_)
CsvJoin(fields) ==
  IF Len(fields) = 1 THEN CsvField(fields[1])
  ELSE CsvField(Head(fields)) \o <<",">> \o CsvJoin(Tail(fields))

\* csv_writer.writerow(fields), without the line terminator
CsvWriteRow(fields) ==
  IF fields = <<>> THEN <<>>
  ELSE IF fields = << <<>> >> THEN <<"\"", "\"">>
  ELSE CsvJoin(fields)

\* the reader's state machine: st is "start", "field", "quoted" or "quote"
RECURSIVE CsvParse(_, _, _, _, _)
CsvParse(line, i, st, cur, acc) ==
  IF i > Len(line)
    THEN (IF Len(line) = 0 THEN <<>> ELSE Append(acc, cur))
  ELSE
    LET c == line[i]
    IN  IF st = "start" THEN
          IF c = "\"" THEN CsvParse(line, i + 1, "quoted", cur, acc)
          ELSE IF c = "," THEN CsvParse(line, i + 1, "start", <<>>, Append(acc, cur))
          ELSE CsvParse(line, i + 1, "field", Append(cur, c), acc)
        ELSE IF st = "field" THEN
          IF c = "," THEN CsvParse(line, i + 1, "start", <<>>, Append(acc, cur))
          ELSE CsvParse(line, i + 1, "field", Append(cur, c), acc)
        ELSE IF st = "quoted" THEN
          IF c = "\"" THEN CsvParse(line, i + 1, "quote", cur, acc)
          ELSE CsvParse(line, i + 1, "quoted", Append(cur, c), acc)
        ELSE
          IF c = "\"" THEN CsvParse(line, i + 1, "quoted", Append(cur, c), acc)
          ELSE IF c = "," THEN CsvParse(line, i + 1, "start", <<>>, Append(acc, cur))
          ELSE CsvParse(line, i + 1, "field", Append(cur, c), acc)

\* one row of csv.reader
CsvReadRow(line) == CsvParse(line, 1, "start", <<>>, <<>>)

(* ------------------------------------------------------------------ *)
(* String literals of the program                                      *)
(* ------------------------------------------------------------------ *)

sOnline == <<"O","n","l","i","n","e">>

sCash == <<"C","a","s","h">>

sCredit == <<"C","r","e","d","i","t">>

sDebit == <<"D","e","b","i","t">>

sAll == <<"A","l","l">>

sFood == <<"F","o","o","d">>

sUtilities == <<"U","t","i","l","i","t","i","e","s">>

sSalary == <<"S","a","l","a","r","y">>

sEntertainment == <<"E","n","t","e","r","t","a","i","n","m","e","n","t">>

sTransportation == <<"T","r","a","n","s","p","o","r","t","a","t","i","o","n">>

sOther == <<"O","t","h","e","r">>

\* ['Date', 'Type', 'Category', 'Reason', 'Amount', 'Notes', 'Mode']
expected_header ==
  << <<"D","a","t","e">>, <<"T","y","p","e">>,
     <<"C","a","t","e","g","o","r","y">>, <<"R","e","a","s","o","n">>,
     <<"A","m","o","u","n","t">>, <<"N","o","t","e","s">>, <<"M","o","d","e">> >>

default_categories ==
  <<sFood, sUtilities, sSalary, sEntertainment, sTransportation, sOther>>

(* ------------------------------------------------------------------ *)
(* Dates and amounts of the bounded checks. float() and strptime() of  *)
(* these are computed once, by FloatOf and StrptimeOf, and looked up.  *)
(* ------------------------------------------------------------------ *)

d20240105 == <<"2","0","2","4","-","0","1","-","0","5">>

d20240220 == <<"2","0","2","4","-","0","2","-","2","0">>

dSlashed == <<"2","0","2","4","/","0","1","/","0","5">>

dFeb30 == <<"2","0","2","4","-","0","2","-","3","0">>

d20240130 == <<"2","0","2","4","-","0","1","-","3","0">>

d20240221 == <<"2","0","2","4","-","0","2","-","2","1">>

a10 == <<"1","0">>

a2p50 == <<"2",".","5","0">>

aMinus5 == <<"-","5">>

aZero == <<"0">>

aAbc == <<"a","b","c">>

\* datetime.date.today() and the day thirty days before it, as the filter
\* entries show them
today == <<"2","0","2","4","-","0","3","-","0","1">>

todayMinus30 == <<"2","0","2","4","-","0","1","-","3","1">>

KnownDates ==
  {d20240105, d20240220, dSlashed, dFeb30, today, todayMinus30, d20240130,
   d20240221, <<>>}

KnownAmounts == {a10, a2p50, aMinus5, aZero, aAbc, <<>>}

StrptimeTable == [s \in KnownDates |-> StrptimeOf(s)]

FloatTable == [s \in KnownAmounts |-> FloatOf(s)]

\* datetime.datetime.strptime(s, '%Y-%m-%d'): [ok |-> FALSE] stands for
\* ValueError
Strptime(s) == IF s \in KnownDates THEN StrptimeTable[s] ELSE StrptimeOf(s)

\* float(s)
ParseFloat(s) == IF s \in KnownAmounts THEN FloatTable[s] ELSE FloatOf(s)

(* ------------------------------------------------------------------ *)
(* Transaction and the CSV codec                                       *)
(* ------------------------------------------------------------------ *)

\* A Transaction object. oid is the object's identity: the class defines no
\* __eq__, so == and list.index compare identities, not fields. The objects
\* load creates have the identities 0, -1, -2, ...; those the handlers
\* create have 1, 2, 3, ... in the order of their creation.
Transaction(oid, date, transaction_type, category, reason, amount, notes, mode) ==
  [oid |-> oid, date |-> date, transaction_type |-> transaction_type,
   category |-> category, reason |-> reason, amount |-> amount,
   notes |-> notes, mode |-> mode]

\* the row save writes for a transaction: the amount is written as repr(float)
\* a writer that puts the mode before the notes
EncodeFieldsModeFirst(t) ==
  <<t.date, t.transaction_type, t.category, t.reason, FloatRepr(t.amount),
    t.mode, t.notes>>

EncodeFields(t) ==
  <<t.date, t.transaction_type, t.category, t.reason, FloatRepr(t.amount),
    t.notes, t.mode>>

EncodeRow(t) == CsvWriteRow(EncodeFields(t))

RECURSIVE EncodeRows(_)
EncodeRows(ts) ==
  IF ts = <<>> THEN <<>> ELSE <<EncodeRow(Head(ts))>> \o EncodeRows(Tail(ts))

\* the lines a completed save_transactions_to_csv leaves in the file
SavedLines(ts) == <<CsvWriteRow(expected_header)>> \o EncodeRows(ts)

\* *parts of a row: what follows the five leading fields
RowParts(row) == SubSeq(row, 6, Len(row))

\* a reading in which a single trailing field is always the mode
RowModeLastField(parts) ==
  IF Len(parts) >= 1 THEN parts[Len(parts)] ELSE sOnline

RowMode(parts) ==
  IF Len(parts) > 1 THEN parts[Len(parts)]
  ELSE IF Len(parts) = 1 /\ parts[1] \in {sOnline, sCash} THEN parts[1]
  ELSE sOnline

RowNotesParts(parts) ==
  IF Len(parts) > 1 THEN SubSeq(parts, 1, Len(parts) - 1)
  ELSE IF Len(parts) = 1 /\ parts[1] \notin {sOnline, sCash} THEN parts
  ELSE <<>>

\* a reading in which the fields are joined with a space between them
RowNotesSpaced(parts) ==
  LET ps == RowNotesParts(parts)
  IN  Strip(Join([i \in 1..Len(ps) |->
                    IF i < Len(ps) THEN Append(ps[i], " ") ELSE ps[i]]))

RowNotes(parts) == Strip(Join(RowNotesParts(parts)))

\* whether the body of the row loop raises (unpacking fewer than five
\* fields, or float(amount)): the row is then reported and skipped
RowRaises(row) == Len(row) < 5 \/ ~ParseFloat(row[5]).ok

\* the Transaction the row loop appends for a row that does not raise
DecodeRow(row, oid) ==
  Transaction(oid, row[1], row[2], row[3], row[4], ParseFloat(row[5]).val,
              RowNotes(RowParts(row)), RowMode(RowParts(row)))

\* the row loop: empty rows and raising rows are skipped
RECURSIVE LoadRows(_, _)
LoadRows(lines, acc) ==
  IF lines = <<>> THEN acc
  ELSE
    LET row == CsvReadRow(Head(lines))
    IN  IF row = <<>> \/ RowRaises(row) THEN LoadRows(Tail(lines), acc)
        ELSE LoadRows(Tail(lines), Append(acc, DecodeRow(row, 0 - Len(acc))))

\* a file is [exists, lines]; the first line is consumed as the header
\* whatever it holds (a mismatch only warns)
load_transactions_from_csv(file) ==
  IF ~file.exists \/ file.lines = <<>> THEN <<>>
  ELSE LoadRows(Tail(file.lines), <<>>)

\* a header test that takes a missing file for a file without header
HeaderWarningNoFile(file) ==
  \/ ~file.exists
  \/ file.lines = <<>>
  \/ CsvReadRow(Head(file.lines)) # expected_header

HeaderWarning(file) ==
  /\ file.exists
  /\ file.lines # <<>>
  /\ CsvReadRow(Head(file.lines)) # expected_header

\* the number of "CSV data error" boxes: the data rows that raise
RowErrors(file) ==
  IF ~file.exists \/ file.lines = <<>> THEN 0
  ELSE Cardinality({ i \in 2..Len(file.lines) :
                      LET row == CsvReadRow(file.lines[i])
                      IN  row # <<>> /\ RowRaises(row) })

\* the message boxes load_transactions_from_csv shows
LoadReports(file) ==
  [warning |-> HeaderWarning(file), errors |-> RowErrors(file)]

NoFile == [exists |-> FALSE, lines |-> <<>>]

FileOf(lines) == [exists |-> TRUE, lines |-> lines]

(* ------------------------------------------------------------------ *)
(* State                                                               *)
(* ------------------------------------------------------------------ *)

VARIABLES
  disk,                  \* transactions.csv: [exists, lines]
  transactions,          \* self.transactions
  filtered_transactions, \* self.filtered_transactions, the rows of the tree
  filters,               \* the contents of the filter widgets
  categories,            \* self.categories
  editDialogs,           \* the open edit windows: each holds its old_transaction
  nextOid,               \* identity of the next Transaction object created
  lastOp,                \* the last handler run and how it ended
  pc,                    \* position of the process in the codec and save runs
  arg,                   \* the value a codec or filter run started from
  ret                    \* the value a codec or filter run produced

vars ==
  <<disk, transactions, filtered_transactions, filters, categories,
    editDialogs, nextOid, lastOp, pc, arg, ret>>

(* ------------------------------------------------------------------ *)
(* Inputs of the bounded checks                                        *)
(* ------------------------------------------------------------------ *)

MaxTrailing == 3

MaxFileRows == 2

sRent == <<"R","e","n","t">>

sBank == <<"B","a","n","k">>

sTransfer == <<"T","r","a","n","s","f","e","r">>

\* all sequences over S of length at most n
RECURSIVE SeqsUpTo(_, _)
SeqsUpTo(S, n) ==
  IF n = 0 THEN {<<>>}
  ELSE LET shorter == SeqsUpTo(S, n - 1)
       IN  shorter \cup {Append(q, x) : q \in shorter, x \in S}

\* values of the fields after the fifth
TrailValues == {sOnline, sCash, <<>>, <<" ","a">>, <<"b"," ">>}

LeadInputs ==
  { <<d20240105, sCredit, sSalary, sRent, a10>>,
    <<d20240220, sDebit, sFood, sRent, a2p50>> }

\* hand-written lines: five leading fields and up to MaxTrailing more
RowLineInputs ==
  { CsvWriteRow(lead \o trail) :
      lead \in LeadInputs, trail \in SeqsUpTo(TrailValues, MaxTrailing) }

\* lines of files with bad rows among good ones
FewLineInputs ==
  { CsvWriteRow(<<d20240105, sCredit, sSalary, sRent, a10, <<>>, sCash>>),
    CsvWriteRow(<<d20240220, sDebit, sFood, sRent, aMinus5, <<>>, sCash>>),
    CsvWriteRow(<<d20240220, sDebit, sFood, sRent, aZero>>),
    CsvWriteRow(<<d20240220, sDebit, sFood, sRent, aAbc, <<>>, sOnline>>),
    CsvWriteRow(<<d20240220, sDebit, sFood, sRent>>),
    CsvWriteRow(<<dSlashed, sTransfer, sFood, sRent, a2p50, <<>>, sBank>>),
    <<>> }

HeaderInputs ==
  { CsvWriteRow(expected_header),
    CsvWriteRow(<<d20240105, sCredit, sSalary, sRent, a10, <<>>, sCash>>) }

FileInputs ==
  { FileOf(<<CsvWriteRow(expected_header), l>>) : l \in RowLineInputs }
    \cup { FileOf(<<h>> \o ls) :
             h \in HeaderInputs, ls \in SeqsUpTo(FewLineInputs, MaxFileRows) }
    \cup { NoFile, FileOf(<<>>) }

NotesInputs ==
  { <<>>, <<"n">>, <<" ","n">>, <<"n"," ">>, sCash, <<"a"," ","b">>, <<"a",",","b">>, <<"a","\"","b">> }

ReasonInputs == { sRent, <<"r",",","s">>, <<"\"">> }

AmountValues ==
  { [cls |-> "finite", hundredths |-> 1000],
    [cls |-> "finite", hundredths |-> 250],
    [cls |-> "finite", hundredths |-> 25],
    [cls |-> "finite", hundredths |-> 123456],
    [cls |-> "finite", hundredths |-> -500],
    [cls |-> "inf", hundredths |-> 1],
    [cls |-> "nan", hundredths |-> 0] }

\* Transaction objects handed to save
TxnInputs ==
  { Transaction(0, d, ty, sFood, r, a, n, m) :
      d \in {d20240105, dSlashed}, ty \in {sCredit, sDebit, sTransfer},
      r \in ReasonInputs, a \in AmountValues, n \in NotesInputs,
      m \in {sOnline, sCash, sBank} }

NoOp == [op |-> "none"]

(* ------------------------------------------------------------------ *)
(* SpecCodec: save and load run on their own                           *)
(*   pc = "file":   disk holds an input file, not yet loaded           *)
(*   pc = "ledger": transactions holds an input list, not yet saved    *)
(* ------------------------------------------------------------------ *)

CodecFrame ==
  UNCHANGED <<filtered_transactions, filters, categories, editDialogs,
              nextOid, lastOp>>

InitCodec ==
  /\ filtered_transactions = <<>>
  /\ filters = <<>>
  /\ categories = default_categories
  /\ editDialogs = <<>>
  /\ nextOid = 1
  /\ lastOp = NoOp
  /\ arg = <<>>
  /\ ret = <<>>
  /\ \/ /\ pc = "file"
        /\ disk \in FileInputs
        /\ transactions = <<>>
     \/ /\ pc = "ledger"
        /\ disk = NoFile
        /\ \E t \in TxnInputs : transactions = <<t>>

\* save_transactions_to_csv(transactions), run to completion
SaveStep ==
  /\ pc = "ledger"
  /\ disk' = FileOf(SavedLines(transactions))
  /\ arg' = transactions
  /\ pc' = "saved"
  /\ UNCHANGED <<transactions, ret>>
  /\ CodecFrame

\* transactions = load_transactions_from_csv()
LoadStep ==
  /\ pc \in {"file", "saved"}
  /\ transactions' = load_transactions_from_csv(disk)
  /\ ret' = LoadReports(disk)
  /\ pc' = IF pc = "file" THEN "loaded" ELSE "reloaded"
  /\ UNCHANGED <<disk, arg>>
  /\ CodecFrame

NextCodec == SaveStep \/ LoadStep

SpecCodec == InitCodec /\ [][NextCodec]_vars

(* ------------------------------------------------------------------ *)
(* Claims about the codec, checked under SpecCodec                     *)
(* ------------------------------------------------------------------ *)

\* the rows csv.reader yields after the header
DataRows(file) ==
  [i \in 1..(Len(file.lines) - 1) |-> CsvReadRow(file.lines[i + 1])]

\* the fields of a row after the five leading ones
TrailingFields(row) == SubSeq(row, 6, Len(row))

\* a file was loaded and no data row was skipped: transactions[i] is the
\* decoding of data row i
LoadedAllRows ==
  /\ pc = "loaded"
  /\ disk.exists
  /\ disk.lines # <<>>
  /\ Len(transactions) = Len(disk.lines) - 1

HasSpaceAtEnds(s) == s # <<>> /\ (IsSpace(s[1]) \/ IsSpace(s[Len(s)]))

\* C2 as stated: with two or more trailing fields, mode is the last field and
\* notes is exactly the concatenation of the trailing fields before it.
C2_NotesExactConcat ==
  LoadedAllRows =>
    \A i \in 1..Len(transactions) :
      LET parts == TrailingFields(DataRows(disk)[i])
      IN  Len(parts) >= 2 =>
            /\ transactions[i].mode = parts[Len(parts)]
            /\ transactions[i].notes = Join(SubSeq(parts, 1, Len(parts) - 1))

\* C2 amended: with two or more trailing fields, mode is the last field and
\* notes is the concatenation, with no separator, of the trailing fields
\* before it, with leading and trailing whitespace removed.
C2_NotesStrippedConcat ==
  LoadedAllRows =>
    \A i \in 1..Len(transactions) :
      LET parts == TrailingFields(DataRows(disk)[i])
      IN  Len(parts) >= 2 =>
            /\ transactions[i].mode = parts[Len(parts)]
            /\ transactions[i].notes =
                 Strip(Join(SubSeq(parts, 1, Len(parts) - 1)))

\* a row with three trailing fields was decoded, its notes joined from two
\* non-empty fields and stripped
C2_Witness ==
  /\ LoadedAllRows
  /\ \E i \in 1..Len(transactions) :
       LET parts == TrailingFields(DataRows(disk)[i])
       IN  /\ Len(parts) = 3
           /\ parts[1] # <<>> /\ parts[2] # <<>>
           /\ HasSpaceAtEnds(parts[1] \o parts[2])
           /\ transactions[i].notes # <<>>

\* C3 as stated: no trailing field gives notes "" and mode Online; a single
\* trailing field "Online" or "Cash" is the mode, with notes ""; any other
\* single trailing field is the notes, unchanged, with mode Online.
C3_ShortRowsExact ==
  LoadedAllRows =>
    \A i \in 1..Len(transactions) :
      LET parts == TrailingFields(DataRows(disk)[i])
          t     == transactions[i]
      IN  /\ Len(parts) = 0 => t.notes = <<>> /\ t.mode = sOnline
          /\ (Len(parts) = 1 /\ parts[1] \in {sOnline, sCash}) =>
               t.notes = <<>> /\ t.mode = parts[1]
          /\ (Len(parts) = 1 /\ parts[1] \notin {sOnline, sCash}) =>
               t.notes = parts[1] /\ t.mode = sOnline

\* C3 amended: as stated, but any other single trailing field gives that
\* value with leading and trailing whitespace removed as notes.
C3_ShortRowsStripped ==
  LoadedAllRows =>
    \A i \in 1..Len(transactions) :
      LET parts == TrailingFields(DataRows(disk)[i])
          t     == transactions[i]
      IN  /\ Len(parts) = 0 => t.notes = <<>> /\ t.mode = sOnline
          /\ (Len(parts) = 1 /\ parts[1] \in {sOnline, sCash}) =>
               t.notes = <<>> /\ t.mode = parts[1]
          /\ (Len(parts) = 1 /\ parts[1] \notin {sOnline, sCash}) =>
               t.notes = Strip(parts[1]) /\ t.mode = sOnline

\* a row whose single trailing field is "Cash" was decoded
C3_Witness ==
  /\ LoadedAllRows
  /\ \E i \in 1..Len(transactions) :
       /\ TrailingFields(DataRows(disk)[i]) = <<sCash>>
       /\ transactions[i].mode = sCash

\* the claim's reading of a row that is kept: five fields or more and an
\* amount that parses as a positive number
C4_Kept(row) ==
  /\ Len(row) >= 5
  /\ ParseFloat(row[5]).ok
  /\ ParseFloat(row[5]).val.cls # "nan"
  /\ ~FloatLeZero(ParseFloat(row[5]).val)

\* C4: load skips every data row whose amount is not a positive number or
\* that has fewer than five fields; the list holds the others in file order.
C4_LoadSkipsBadRows ==
  (pc = "loaded" /\ disk.exists /\ disk.lines # <<>>) =>
    LET kept == SelectSeq(DataRows(disk), C4_Kept)
    IN  /\ Len(transactions) = Len(kept)
        /\ \A i \in 1..Len(kept) :
             /\ transactions[i].date = kept[i][1]
             /\ transactions[i].transaction_type = kept[i][2]
             /\ transactions[i].category = kept[i][3]
             /\ transactions[i].reason = kept[i][4]
             /\ transactions[i].amount = ParseFloat(kept[i][5]).val

\* the claim's valid Transaction with notes free of delimiter characters
C5_Valid(t) ==
  /\ t.amount.cls # "nan" /\ ~FloatLeZero(t.amount)
  /\ t.transaction_type \in {sCredit, sDebit}
  /\ t.mode \in {sOnline, sCash}
  /\ ~NeedsQuote(t.notes)

SameFields(t, u) ==
  /\ t.date = u.date
  /\ t.transaction_type = u.transaction_type
  /\ t.category = u.category
  /\ t.reason = u.reason
  /\ FloatEq(t.amount, u.amount)
  /\ t.notes = u.notes
  /\ t.mode = u.mode

\* C5 as stated: a valid Transaction whose notes holds no delimiter
\* character is decoded from the row save wrote for it equal in all fields.
C5_RoundTripAnyNotes ==
  (pc = "reloaded" /\ \A i \in 1..Len(arg) : C5_Valid(arg[i])) =>
    /\ Len(transactions) = Len(arg)
    /\ \A i \in 1..Len(arg) : SameFields(transactions[i], arg[i])

\* C5 amended: the same for a valid Transaction whose notes, besides holding
\* no delimiter character, neither begins nor ends with whitespace.
C5_RoundTripStrippedNotes ==
  (/\ pc = "reloaded"
   /\ \A i \in 1..Len(arg) :
        C5_Valid(arg[i]) /\ ~HasSpaceAtEnds(arg[i].notes)) =>
    /\ Len(transactions) = Len(arg)
    /\ \A i \in 1..Len(arg) : SameFields(transactions[i], arg[i])

\* a valid Transaction with notes, a fractional amount and a reason that
\* needs quoting went through save and load
C5_Witness ==
  /\ pc = "reloaded"
  /\ Len(arg) = 1
  /\ C5_Valid(arg[1]) /\ ~HasSpaceAtEnds(arg[1].notes)
  /\ arg[1].notes # <<>>
  /\ NeedsQuote(arg[1].reason)
  /\ arg[1].amount.hundredths = 25
  /\ SameFields(transactions[1], arg[1])

(* ------------------------------------------------------------------ *)
(* FinanceApp: validation, lookup, filter                              *)
(* ------------------------------------------------------------------ *)

InList(x, xs) == \E i \in 1..Len(xs) : xs[i] = x

\* validate_input: the result returned to the caller
validate_input(date_str, amount_str, reason_str, category_str, cats) ==
  IF date_str = <<>> \/ amount_str = <<>> \/ reason_str = <<>>
       \/ category_str = <<>> THEN FALSE
  ELSE IF ~InList(category_str, cats) THEN FALSE
  ELSE IF ~Strptime(date_str).ok THEN FALSE
  ELSE IF ~ParseFloat(amount_str).ok THEN TRUE    \* except ValueError: return True
  ELSE IF FloatLeZero(ParseFloat(amount_str).val) THEN FALSE
  ELSE TRUE

\* equality by value, as a Transaction with a field-wise __eq__ would have
ObjEqByValue(a, b) ==
  /\ a.date = b.date
  /\ a.transaction_type = b.transaction_type
  /\ a.category = b.category
  /\ a.reason = b.reason
  /\ a.amount = b.amount
  /\ a.notes = b.notes
  /\ a.mode = b.mode

\* a == b on Transaction objects: the default object equality, identity
ObjEq(a, b) == a.oid = b.oid

\* a lookup that answers -1 when there is none, which as a subscript is the
\* last position
IndexOfOrLast(ts, x) ==
  IF \E i \in 1..Len(ts) : ObjEq(ts[i], x)
  THEN CHOOSE i \in 1..Len(ts) :
         ObjEq(ts[i], x) /\ \A j \in 1..(i - 1) : ~ObjEq(ts[j], x)
  ELSE Len(ts)

\* ts.index(x): the first position holding an object equal to x; 0 stands
\* for the ValueError raised when there is none
IndexOf(ts, x) ==
  IF \E i \in 1..Len(ts) : ObjEq(ts[i], x)
  THEN CHOOSE i \in 1..Len(ts) :
         ObjEq(ts[i], x) /\ \A j \in 1..(i - 1) : ~ObjEq(ts[j], x)
  ELSE 0

RemoveAt(ts, i) == SubSeq(ts, 1, i - 1) \o SubSeq(ts, i + 1, Len(ts))

\* a try block that would parse the start bound only
DateFilterAppliesStartOnly(ts, f) ==
  /\ Strptime(f.start_date).ok
  /\ \A i \in 1..Len(ts) : Strptime(ts[i].date).ok

\* whether the try block of apply_filters completes: both bounds parse and
\* so does the date of every transaction the comprehension visits
DateFilterApplies(ts, f) ==
  /\ Strptime(f.start_date).ok
  /\ Strptime(f.end_date).ok
  /\ \A i \in 1..Len(ts) : Strptime(ts[i].date).ok

\* the list apply_filters stores in self.filtered_transactions
apply_filters(ts, f) ==
  LET search_term == Lower(f.search)
      InRange(t) ==
        /\ DateKey(Strptime(f.start_date)) <= DateKey(Strptime(t.date))
        /\ DateKey(Strptime(t.date)) <= DateKey(Strptime(f.end_date))
      TypeIs(t) == t.transaction_type = f.filter_type
      ModeIs(t) == t.mode = f.filter_mode
      CategoryIs(t) == t.category = f.filter_category
      Matches(t) ==
        \/ Contains(search_term, Lower(t.reason))
        \/ Contains(search_term, Lower(t.category))
        \/ Contains(search_term, Lower(t.notes))
      byDate == IF DateFilterApplies(ts, f) THEN SelectSeq(ts, InRange) ELSE ts
      byType == IF f.filter_type # sAll THEN SelectSeq(byDate, TypeIs) ELSE byDate
      byMode == IF f.filter_mode # sAll THEN SelectSeq(byType, ModeIs) ELSE byType
      byCat  == IF f.filter_category # sAll THEN SelectSeq(byMode, CategoryIs)
                ELSE byMode
  IN  IF search_term # <<>> THEN SelectSeq(byCat, Matches) ELSE byCat

\* whether apply_filters shows "Invalid date format. Dates ignored."
FilterWarning(ts, f) == ~DateFilterApplies(ts, f)

\* the filter widgets as init_ui and clear_filters leave them
DefaultFilters ==
  [start_date |-> todayMinus30, end_date |-> today, filter_type |-> sAll,
   filter_mode |-> sAll, filter_category |-> sAll, search |-> <<>>]

(* ------------------------------------------------------------------ *)
(* Spec: the running application                                       *)
(* ------------------------------------------------------------------ *)

MaxCreated == 1

MaxDialogs == 2

sZzz == <<"Z","z","z">>

sNoted == <<" ","p","a","i","d"," ">>

\* what the user has put in the entry form (or in an edit window) when the
\* button is pressed
BaseRequest ==
  [date |-> d20240220, transaction_type |-> sCredit, category |-> sFood,
   reason |-> sRent, amount |-> a10, notes |-> <<>>, mode |-> sOnline]

ValidRequests ==
  { BaseRequest,
    [BaseRequest EXCEPT !.date = d20240105, !.transaction_type = sDebit,
                        !.mode = sCash, !.notes = sNoted] }

FaultyRequests ==
  { [BaseRequest EXCEPT !.date = d] : d \in {dFeb30, dSlashed, <<>>} }
    \cup { [BaseRequest EXCEPT !.amount = a] : a \in {aAbc, aMinus5, aZero, <<>>} }
    \cup { [BaseRequest EXCEPT !.category = c] : c \in {sZzz, <<>>} }
    \cup { [BaseRequest EXCEPT !.reason = <<>>] }

\* the requests of the form checks
RequestInputs == ValidRequests \cup FaultyRequests

\* the requests of the application runs
AppRequests == ValidRequests \cup { [BaseRequest EXCEPT !.amount = aAbc] }

NoRequest ==
  [date |-> <<>>, transaction_type |-> <<>>, category |-> <<>>,
   reason |-> <<>>, amount |-> <<>>, notes |-> <<>>, mode |-> <<>>]

\* what the user has put in the filter widgets
FilterInputs ==
  { DefaultFilters,
    [DefaultFilters EXCEPT !.start_date = d20240105, !.filter_type = sDebit,
                           !.search = <<"R","E","N">>],
    [DefaultFilters EXCEPT !.start_date = dSlashed, !.filter_mode = sOnline] }

GoodLine ==
  CsvWriteRow(<<d20240220, sCredit, sFood, sRent, a10, <<>>, sOnline>>)

OddLine ==
  CsvWriteRow(<<dSlashed, sTransfer, sFood, sRent, aMinus5, <<>>, sBank>>)

\* transactions.csv as the application finds it at startup
AppFileInputs ==
  { NoFile,
    FileOf(<<CsvWriteRow(expected_header), GoodLine, GoodLine>>),
    FileOf(<<CsvWriteRow(expected_header), OddLine>>) }

\* the record of a handler run: the handler, what validate_input returned,
\* the exception that escaped it ("none" if none), the request it read and
\* the identity of the transaction it was aimed at
Ran(op, valid, error, req, target) ==
  [op |-> op, valid |-> valid, error |-> error, req |-> req, target |-> target]

PureFrame == UNCHANGED <<pc, arg, ret>>

\* FinanceApp.__init__: the list is loaded and shown unfiltered
Init ==
  /\ disk \in AppFileInputs
  /\ transactions = load_transactions_from_csv(disk)
  /\ filtered_transactions = transactions
  /\ filters = DefaultFilters
  /\ categories = default_categories
  /\ editDialogs = <<>>
  /\ nextOid = 1
  /\ lastOp = Ran("init", TRUE, "none", NoRequest, 0)
  /\ pc = "app"
  /\ arg = <<>>
  /\ ret = <<>>

\* save_and_update (and the apply_filters calls after it) for the new list
SaveAndUpdate(ts) ==
  /\ disk' = FileOf(SavedLines(ts))
  /\ filtered_transactions' = apply_filters(ts, filters)

\* a handler that ends without touching the list
Untouched ==
  UNCHANGED <<disk, transactions, filtered_transactions, filters, categories,
              nextOid>>

\* The open edit windows are independent of one another: they are kept in
\* the order of the identities of their transactions.
WithDialog(ds, old) ==
  LET n == Cardinality({i \in 1..Len(ds) : ds[i].oid <= old.oid})
  IN  SubSeq(ds, 1, n) \o <<old>> \o SubSeq(ds, n + 1, Len(ds))

\* the Transaction a handler builds from a request it has validated
Built(req, oid) ==
  Transaction(oid, req.date, req.transaction_type, req.category, req.reason,
              ParseFloat(req.amount).val, Strip(req.notes), req.mode)

\* an add_transaction that would keep the list in date order
AddTransactionByDateOf(R) ==
  /\ pc = "app"
  /\ \E req \in R :
       IF ~validate_input(req.date, req.amount, req.reason, req.category,
                          categories) THEN
         /\ lastOp' = Ran("add", FALSE, "none", req, 0)
         /\ Untouched
       ELSE IF ~ParseFloat(req.amount).ok THEN
         /\ lastOp' = Ran("add", TRUE, "ValueError", req, 0)
         /\ Untouched
       ELSE
         LET n == Cardinality({ i \in 1..Len(transactions) :
                     DateKey(Strptime(transactions[i].date))
                       <= DateKey(Strptime(req.date)) })
         IN  /\ nextOid <= MaxCreated
             /\ transactions' =
                  SubSeq(transactions, 1, n) \o <<Built(req, nextOid)>>
                    \o SubSeq(transactions, n + 1, Len(transactions))
             /\ nextOid' = nextOid + 1
             /\ SaveAndUpdate(transactions')
             /\ lastOp' = Ran("add", TRUE, "none", req, nextOid)
             /\ UNCHANGED <<filters, categories>>
  /\ UNCHANGED editDialogs
  /\ PureFrame

\* add_transaction, for a request of R
AddTransactionOf(R) ==
  /\ pc = "app"
  /\ \E req \in R :
       IF ~validate_input(req.date, req.amount, req.reason, req.category,
                          categories) THEN
         /\ lastOp' = Ran("add", FALSE, "none", req, 0)
         /\ Untouched
       ELSE IF ~ParseFloat(req.amount).ok THEN
         \* float(amount_str) raises in the handler
         /\ lastOp' = Ran("add", TRUE, "ValueError", req, 0)
         /\ Untouched
       ELSE
         /\ nextOid <= MaxCreated
         /\ transactions' = Append(transactions, Built(req, nextOid))
         /\ nextOid' = nextOid + 1
         /\ SaveAndUpdate(transactions')
         /\ lastOp' = Ran("add", TRUE, "none", req, nextOid)
         /\ UNCHANGED <<filters, categories>>
  /\ UNCHANGED editDialogs
  /\ PureFrame

AddTransaction == AddTransactionOf(AppRequests)

\* edit_transaction: an edit window opens on the selected row
OpenEdit ==
  /\ pc = "app"
  /\ Len(editDialogs) < MaxDialogs
  /\ \E k \in 1..Len(filtered_transactions) :
       /\ editDialogs' = WithDialog(editDialogs, filtered_transactions[k])
       /\ lastOp' = Ran("open_edit", TRUE, "none", NoRequest, 0)
  /\ Untouched
  /\ PureFrame

\* the user closes an edit window without saving
CloseEdit ==
  /\ pc = "app"
  /\ \E j \in 1..Len(editDialogs) :
       /\ editDialogs' = RemoveAt(editDialogs, j)
       /\ lastOp' = Ran("close_edit", TRUE, "none", NoRequest, 0)
  /\ Untouched
  /\ PureFrame

\* save_edit of an edit window, for a request of R
SaveEditOf(R) ==
  /\ pc = "app"
  /\ \E j \in 1..Len(editDialogs), req \in R :
       LET old == editDialogs[j]
           original_index == IndexOf(transactions, old)
       IN  IF ~validate_input(req.date, req.amount, req.reason, req.category,
                              categories) THEN
             /\ lastOp' = Ran("save_edit", FALSE, "none", req, old.oid)
             /\ Untouched
             /\ UNCHANGED editDialogs
           ELSE IF ~ParseFloat(req.amount).ok \/ original_index = 0 THEN
             \* float(amount_str) or transactions.index(old_transaction) raises
             /\ lastOp' = Ran("save_edit", TRUE, "ValueError", req, old.oid)
             /\ Untouched
             /\ UNCHANGED editDialogs
           ELSE
             /\ nextOid <= MaxCreated
             /\ transactions' =
                  [transactions EXCEPT ![original_index] = Built(req, nextOid)]
             /\ nextOid' = nextOid + 1
             /\ SaveAndUpdate(transactions')
             /\ editDialogs' = RemoveAt(editDialogs, j)
             /\ lastOp' = Ran("save_edit", TRUE, "none", req, old.oid)
             /\ UNCHANGED <<filters, categories>>
  /\ PureFrame

SaveEdit == SaveEditOf(AppRequests)

\* delete_transaction, confirmed, on row k of the tree
DeleteTransaction ==
  /\ pc = "app"
  /\ \E k \in 1..Len(filtered_transactions) :
       LET transaction_to_delete == filtered_transactions[k]
           original_index_to_delete == IndexOf(transactions, transaction_to_delete)
       IN  IF original_index_to_delete = 0 THEN
             /\ lastOp' = Ran("delete", TRUE, "ValueError", NoRequest,
                              transaction_to_delete.oid)
             /\ Untouched
           ELSE
             /\ transactions' = RemoveAt(transactions, original_index_to_delete)
             /\ SaveAndUpdate(transactions')
             /\ lastOp' = Ran("delete", TRUE, "none", NoRequest,
                              transaction_to_delete.oid)
             /\ UNCHANGED <<filters, categories, nextOid>>
  /\ UNCHANGED editDialogs
  /\ PureFrame

\* clear_all_transactions, confirmed
ClearAll ==
  /\ pc = "app"
  /\ transactions' = <<>>
  /\ SaveAndUpdate(transactions')
  /\ lastOp' = Ran("clear_all", TRUE, "none", NoRequest, 0)
  /\ UNCHANGED <<filters, categories, nextOid, editDialogs>>
  /\ PureFrame

\* the user types into the filter widgets
SetFilters ==
  /\ pc = "app"
  /\ \E f \in FilterInputs :
       /\ f # filters
       /\ filters' = f
  /\ lastOp' = Ran("set_filters", TRUE, "none", NoRequest, 0)
  /\ UNCHANGED <<disk, transactions, filtered_transactions, categories,
                 nextOid, editDialogs>>
  /\ PureFrame

\* the Apply Filters button
ApplyFilters ==
  /\ pc = "app"
  /\ filtered_transactions' = apply_filters(transactions, filters)
  /\ lastOp' = Ran("apply_filters", TRUE, "none", NoRequest, 0)
  /\ UNCHANGED <<disk, transactions, filters, categories, nextOid, editDialogs>>
  /\ PureFrame

\* clear_filters
ClearFilters ==
  /\ pc = "app"
  /\ filters' = DefaultFilters
  /\ filtered_transactions' = apply_filters(transactions, DefaultFilters)
  /\ lastOp' = Ran("clear_filters", TRUE, "none", NoRequest, 0)
  /\ UNCHANGED <<disk, transactions, categories, nextOid, editDialogs>>
  /\ PureFrame

Next ==
  \/ AddTransaction
  \/ OpenEdit
  \/ CloseEdit
  \/ SaveEdit
  \/ DeleteTransaction
  \/ ClearAll
  \/ SetFilters
  \/ ApplyFilters
  \/ ClearFilters

Spec == Init /\ [][Next]_vars

(* ------------------------------------------------------------------ *)
(* SpecForm: the entry form and the edit windows, with every kind of   *)
(* faulty request                                                      *)
(* ------------------------------------------------------------------ *)

AddForm == AddTransactionOf(RequestInputs)

SaveEditForm == SaveEditOf(RequestInputs)

NextForm ==
  \/ AddForm
  \/ OpenEdit
  \/ SaveEditForm
  \/ CloseEdit
  \/ DeleteTransaction

SpecForm == Init /\ [][NextForm]_vars

(* ------------------------------------------------------------------ *)
(* Claims about the handlers                                           *)
(* ------------------------------------------------------------------ *)

HoldsOid(ts, oid) == \E i \in 1..Len(ts) : ts[i].oid = oid

WithoutPos(ts, i) == [k \in 1..(Len(ts) - 1) |-> IF k < i THEN ts[k] ELSE ts[k + 1]]

\* C6: a save of an edit window, or a delete, aimed at a transaction that is
\* no longer in the list fails and leaves the list and the file unchanged.
C6_StaleTargetFails ==
  [][ (/\ lastOp'.op \in {"save_edit", "delete"}
       /\ ~HoldsOid(transactions, lastOp'.target)) =>
        /\ ~lastOp'.valid \/ lastOp'.error = "ValueError"
        /\ transactions' = transactions
        /\ disk' = disk ]_vars

\* an edit window was saved with a valid request after its transaction had
\* left the list: the handler raised
C6_Witness ==
  /\ lastOp.op = "save_edit"
  /\ lastOp.req \in ValidRequests
  /\ lastOp.error = "ValueError"
  /\ ~HoldsOid(transactions, lastOp.target)
  /\ transactions # <<>>

\* C7: a successful replace changes the list only at the position of the
\* edited object and keeps its length; a successful remove deletes exactly
\* the position of the selected object. Objects with identical fields
\* elsewhere in the list are not touched.
C7_ExactEntry ==
  [][ /\ (lastOp'.op = "save_edit" /\ lastOp'.valid /\ lastOp'.error = "none") =>
           \E i \in 1..Len(transactions) :
             /\ transactions[i].oid = lastOp'.target
             /\ Len(transactions') = Len(transactions)
             /\ \A k \in 1..Len(transactions) :
                  k # i => transactions'[k] = transactions[k]
             /\ transactions'[i].oid # lastOp'.target
             /\ transactions'[i].date = lastOp'.req.date
             /\ transactions'[i].transaction_type = lastOp'.req.transaction_type
             /\ transactions'[i].mode = lastOp'.req.mode
      /\ (lastOp'.op = "delete" /\ lastOp'.error = "none") =>
           \E i \in 1..Len(transactions) :
             /\ transactions[i].oid = lastOp'.target
             /\ transactions' = WithoutPos(transactions, i) ]_vars

\* the second of two rows with identical fields was replaced: the first is
\* still there, unchanged, before the new object
C7_Witness ==
  /\ lastOp.op = "save_edit" /\ lastOp.error = "none" /\ lastOp.valid
  /\ lastOp.target = -1
  /\ lastOp.req # BaseRequest
  /\ Len(transactions) = 2
  /\ transactions[1] = DecodeRow(CsvReadRow(GoodLine), 0)
  /\ transactions[2].oid = 1

\* the second of two rows with identical fields was deleted
C7_WitnessDelete ==
  /\ lastOp.op = "delete" /\ lastOp.error = "none"
  /\ lastOp.target = -1
  /\ transactions = <<DecodeRow(CsvReadRow(GoodLine), 0)>>

\* C8: every transaction of the list has type Credit or Debit and mode
\* Online or Cash.
C8_TypeAndModeValid ==
  \A i \in 1..Len(transactions) :
    /\ transactions[i].transaction_type \in {sCredit, sDebit}
    /\ transactions[i].mode \in {sOnline, sCash}

\* the claim's faulty request: a date that is no YYYY-MM-DD date, an amount
\* that is no number or not above zero, an empty required field, or a
\* category that is not registered
C9_Faulty(req, cats) ==
  \/ ~Strptime(req.date).ok
  \/ ~ParseFloat(req.amount).ok
  \/ FloatLeZero(ParseFloat(req.amount).val)
  \/ req.date = <<>> \/ req.category = <<>> \/ req.reason = <<>>
  \/ req.amount = <<>>
  \/ ~InList(req.category, cats)

\* C9: for a faulty add or edit request validate_input reports failure, and
\* the list is left unchanged.
C9_FaultyRequestRejected ==
  [][ (/\ lastOp'.op \in {"add", "save_edit"}
       /\ C9_Faulty(lastOp'.req, categories)) =>
        /\ ~lastOp'.valid
        /\ transactions' = transactions ]_vars

(* ------------------------------------------------------------------ *)
(* SpecSave: save_transactions_to_csv step by step                     *)
(*   arg: the file as it was before the save                           *)
(*   ret: the number of rows written so far                            *)
(* ------------------------------------------------------------------ *)

MaxSaveRows == 2

SaveTxnInputs ==
  { Transaction(0, d20240105, sCredit, sSalary, sRent, ParseFloat(a10).val,
                <<>>, sOnline),
    Transaction(0, d20240220, sDebit, sFood, sRent, ParseFloat(a2p50).val,
                <<"n">>, sCash),
    Transaction(0, today, sDebit, sUtilities, <<"r",",","s">>,
                ParseFloat(a10).val, <<>>, sCash) }

SaveLedgers == SeqsUpTo(SaveTxnInputs, MaxSaveRows)

SaveFrame ==
  UNCHANGED <<transactions, filtered_transactions, filters, categories,
              editDialogs, nextOid, lastOp, arg>>

InitSave ==
  /\ disk \in {NoFile} \cup { FileOf(SavedLines(old)) : old \in SaveLedgers }
  /\ transactions \in SaveLedgers
  /\ filtered_transactions = <<>>
  /\ filters = DefaultFilters
  /\ categories = default_categories
  /\ editDialogs = <<>>
  /\ nextOid = 1
  /\ lastOp = NoOp
  /\ pc = "save"
  /\ arg = disk
  /\ ret = 0

\* open(filename, 'w', newline=''): the file is created or truncated
OpenFile ==
  /\ pc = "save"
  /\ disk' = FileOf(<<>>)
  /\ pc' = "opened"
  /\ UNCHANGED ret
  /\ SaveFrame

\* open raises (no permission, no such directory): the except clause reports
OpenFails ==
  /\ pc = "save"
  /\ pc' = "failed"
  /\ UNCHANGED <<disk, ret>>
  /\ SaveFrame

\* writer.writerow(header)
WriteHeader ==
  /\ pc = "opened"
  /\ disk' = FileOf(<<CsvWriteRow(expected_header)>>)
  /\ pc' = "writing"
  /\ UNCHANGED ret
  /\ SaveFrame

\* writer.writerow([...]) for the next transaction
WriteRow ==
  /\ pc = "writing"
  /\ ret < Len(transactions)
  /\ disk' = FileOf(Append(disk.lines, EncodeRow(transactions[ret + 1])))
  /\ ret' = ret + 1
  /\ UNCHANGED pc
  /\ SaveFrame

\* the with block ends after the last row
CloseFile ==
  /\ pc = "writing"
  /\ ret = Len(transactions)
  /\ pc' = "closed"
  /\ UNCHANGED <<disk, ret>>
  /\ SaveFrame

\* a writerow raises (disk full, a character the encoding lacks): the with
\* block closes the file with what was written, the except clause reports
WriteFails ==
  /\ \/ pc = "opened"
     \/ pc = "writing" /\ ret < Len(transactions)
  /\ pc' = "failed"
  /\ UNCHANGED <<disk, ret>>
  /\ SaveFrame

\* the process is killed while the file is open
Interrupted ==
  /\ pc \in {"opened", "writing"}
  /\ pc' = "killed"
  /\ UNCHANGED <<disk, ret>>
  /\ SaveFrame

NextSave ==
  \/ OpenFile
  \/ OpenFails
  \/ WriteHeader
  \/ WriteRow
  \/ CloseFile
  \/ WriteFails
  \/ Interrupted

SpecSave == InitSave /\ [][NextSave]_vars

\* C1: at every point of a save, an interruption or failure included, the
\* file holds the complete previous content or the complete new content.
C1_SaveIsAtomic ==
  \/ disk = arg
  \/ disk = FileOf(SavedLines(transactions))

(* ------------------------------------------------------------------ *)
(* SpecFilter: apply_filters and clear_filters on their own            *)
(*   ret: whether the date warning was shown                           *)
(* ------------------------------------------------------------------ *)

MaxFilterLen == 2

sGas == <<"g","a","s">>

sRentDue == <<"r","e","n","t"," ","d","u","e">>

sREN == <<"R","E","N">>

FilterTxnInputs ==
  { Transaction(0, d20240105, sCredit, sSalary, sRent, ParseFloat(a10).val,
                <<>>, sOnline),
    Transaction(0, d20240220, sDebit, sFood, sRent, ParseFloat(a2p50).val,
                <<>>, sCash),
    Transaction(0, todayMinus30, sDebit, sFood, sGas, ParseFloat(a10).val,
                <<>>, sOnline),
    Transaction(0, today, sCredit, sSalary, sGas, ParseFloat(a10).val,
                <<>>, sCash),
    Transaction(0, dSlashed, sDebit, sFood, sRent, ParseFloat(a10).val,
                <<>>, sCash),
    Transaction(0, d20240221, sDebit, sUtilities, sGas, ParseFloat(a10).val,
                sRentDue, sCash),
    Transaction(0, d20240130, sCredit, sFood, sGas, ParseFloat(a10).val,
                <<>>, sOnline) }

\* the objects of a list are distinct: 0, -1, -2, ... as load creates them
Loaded(ts) == [i \in 1..Len(ts) |-> [ts[i] EXCEPT !.oid = 1 - i]]

FilterLedgers == { Loaded(ts) : ts \in SeqsUpTo(FilterTxnInputs, MaxFilterLen) }

CriteriaInputs ==
  [start_date : {todayMinus30, d20240105, dSlashed},
   end_date : {today, d20240220, dFeb30},
   filter_type : {sAll, sDebit},
   filter_mode : {sAll, sCash},
   filter_category : {sAll, sFood},
   search : {<<>>, sREN}]

InitFilter ==
  /\ disk = NoFile
  /\ transactions \in FilterLedgers
  /\ filtered_transactions = transactions
  /\ filters \in CriteriaInputs
  /\ categories = default_categories
  /\ editDialogs = <<>>
  /\ nextOid = 1
  /\ lastOp = NoOp
  /\ pc = "filter"
  /\ arg = <<>>
  /\ ret = FALSE

FilterFrame ==
  UNCHANGED <<disk, transactions, categories, editDialogs, nextOid, lastOp, arg>>

\* apply_filters with the widgets as they stand
FilterStep ==
  /\ pc = "filter"
  /\ filtered_transactions' = apply_filters(transactions, filters)
  /\ ret' = FilterWarning(transactions, filters)
  /\ pc' = "filtered"
  /\ UNCHANGED filters
  /\ FilterFrame

\* clear_filters: the widgets are reset and apply_filters runs
ClearStep ==
  /\ pc = "filtered"
  /\ filters' = DefaultFilters
  /\ filtered_transactions' = apply_filters(transactions, DefaultFilters)
  /\ ret' = FilterWarning(transactions, DefaultFilters)
  /\ pc' = "cleared"
  /\ FilterFrame

NextFilter == FilterStep \/ ClearStep

SpecFilter == InitFilter /\ [][NextFilter]_vars

\* the date constraint is active when both bounds are valid dates
C10_DateActive(f) == Strptime(f.start_date).ok /\ Strptime(f.end_date).ok

\* a transaction satisfies every active constraint of f
C10_Satisfies(t, f) ==
  /\ C10_DateActive(f) =>
       /\ Strptime(t.date).ok
       /\ DateKey(Strptime(f.start_date)) <= DateKey(Strptime(t.date))
       /\ DateKey(Strptime(t.date)) <= DateKey(Strptime(f.end_date))
  /\ f.filter_type # sAll => t.transaction_type = f.filter_type
  /\ f.filter_mode # sAll => t.mode = f.filter_mode
  /\ f.filter_category # sAll => t.category = f.filter_category
  /\ f.search # <<>> =>
       \/ Contains(Lower(f.search), Lower(t.reason))
       \/ Contains(Lower(f.search), Lower(t.category))
       \/ Contains(Lower(f.search), Lower(t.notes))

\* C10: the filter result is the subsequence of the list, in its order, of
\* the transactions that satisfy every active constraint; with no active
\* constraint it is the list.
C10_ResultIsSelection ==
  pc \in {"filtered", "cleared"} =>
    LET Sat(t) == C10_Satisfies(t, filters)
    IN  filtered_transactions = SelectSeq(transactions, Sat)

(* ------------------------------------------------------------------ *)
(* Claims about the filter, checked under SpecFilter                   *)
(* ------------------------------------------------------------------ *)

\* the calendar day after p
NextDay(p) ==
  IF p.d < DaysInMonth(p.y, p.m) THEN [p EXCEPT !.d = p.d + 1]
  ELSE IF p.m < 12 THEN [p EXCEPT !.m = p.m + 1, !.d = 1]
  ELSE [p EXCEPT !.y = p.y + 1, !.m = 1, !.d = 1]

\* t passes the type, mode, category and search constraints of f
OtherConstraints(t, f) ==
  /\ f.filter_type # sAll => t.transaction_type = f.filter_type
  /\ f.filter_mode # sAll => t.mode = f.filter_mode
  /\ f.filter_category # sAll => t.category = f.filter_category
  /\ f.search # <<>> =>
       \/ Contains(Lower(f.search), Lower(t.reason))
       \/ Contains(Lower(f.search), Lower(t.category))
       \/ Contains(Lower(f.search), Lower(t.notes))

\* C11: with a valid date range, a transaction dated exactly start or
\* exactly end is in the result (when the other constraints admit it), and
\* a transaction dated the day before start or the day after end is not.
C11_RangeBoundaries ==
  (/\ pc = "filtered"
   /\ Strptime(filters.start_date).ok
   /\ Strptime(filters.end_date).ok
   /\ DateKey(Strptime(filters.start_date))
        <= DateKey(Strptime(filters.end_date))) =>
    LET start == Strptime(filters.start_date)
        end   == Strptime(filters.end_date)
    IN  \A i \in 1..Len(transactions) :
          LET t == transactions[i]
              d == Strptime(t.date)
          IN  /\ (d.ok /\ (d = start \/ d = end)
                    /\ OtherConstraints(t, filters)) =>
                   HoldsOid(filtered_transactions, t.oid)
              /\ (d.ok /\ (NextDay(d) = start \/ d = NextDay(end))) =>
                   ~HoldsOid(filtered_transactions, t.oid)

\* C12: when the start bound or the end bound is no valid date, the filter
\* still produces a result: the warning is shown, no date constraint is
\* applied, and the result is what type, mode, category and search select
\* from the whole list.
C12_BadBoundIgnored ==
  (/\ pc = "filtered"
   /\ ~Strptime(filters.start_date).ok \/ ~Strptime(filters.end_date).ok) =>
    LET Other(t) == OtherConstraints(t, filters)
    IN  /\ ret = TRUE
        /\ filtered_transactions = SelectSeq(transactions, Other)

\* the end bound was 2024-02-30: a transaction dated before the start bound
\* was kept and one of another category dropped, with the warning
C12_Witness ==
  /\ pc = "filtered"
  /\ filters.start_date = todayMinus30
  /\ filters.end_date = dFeb30
  /\ filters.filter_category = sFood
  /\ ret = TRUE
  /\ Len(transactions) = 2
  /\ transactions[1].date = d20240130
  /\ transactions[2].category = sSalary
  /\ filtered_transactions = <<transactions[1]>>

(* ------------------------------------------------------------------ *)
(* Arithmetic of the sums. The amounts are Python floats (IEEE 754      *)
(* binary64) and += and -= round to nearest, ties to even. A number is  *)
(*   [cls |-> "zero"], [cls |-> "nan"], [cls |-> "inf", sign],          *)
(*   [cls |-> "finite", sign, exp, bits]: sign * bits * 2^exp, bits the *)
(*   53 binary digits of the significand, first digit 1.                *)
(* Domain: no overflow and no subnormal results.                        *)
(* ------------------------------------------------------------------ *)

Precision == 53

Zeros(n) == [i \in 1..n |-> 0]

\* the binary digits of a natural number, most significant first
NatBits(n) ==
  LET len == Cardinality({k \in 0..30 : 2^k <= n})
  IN  [i \in 1..len |-> (n \div 2^(len - i)) % 2]

\* 2^k modulo 100 (of period 20 from k = 2 on)
Pow2Mod100(k) == IF k < 2 THEN 2^k ELSE (2^(2 + ((k - 2) % 20))) % 100

\* the first n binary digits of r / 100 after the point (r < 100), and
\* whether a non-zero rest follows them
FracBits(r, n) ==
  [bits |-> [i \in 1..n |->
               IF 2 * ((r * Pow2Mod100(i - 1)) % 100) >= 100 THEN 1 ELSE 0],
   rest |-> (r * Pow2Mod100(n)) % 100 # 0]

\* the number of zero digits of r / 100 after the point before the first 1
LeadingFracZeros(r) == Cardinality({z \in 1..7 : r * 2^z < 100})

StripZeros(b) ==
  LET zeros == Cardinality({i \in 1..Len(b) : \A j \in 1..i : b[j] = 0})
  IN  SubSeq(b, zeros + 1, Len(b))

PadLeft(b, n) == Zeros(n - Len(b)) \o b

\* a + b + carry on digit strings of equal length n: the n + 1 digits of
\* the sum. The carry into place i comes from the nearest place below it
\* where both digits are 1 (or from the carry put in) through places where
\* exactly one is.
AddBits(a, b, carry) ==
  LET n == Len(a)
      Into(i) ==
        \/ \E j \in (i + 1)..n :
             /\ a[j] + b[j] = 2
             /\ \A k \in (i + 1)..(j - 1) : a[k] + b[k] = 1
        \/ carry = 1 /\ \A k \in (i + 1)..n : a[k] + b[k] >= 1
      C(i) == IF Into(i) THEN 1 ELSE 0
  IN  <<C(0)>> \o [i \in 1..n |-> (a[i] + b[i] + C(i)) % 2]

\* a - b on digit strings of equal length n with a >= b
SubBits(a, b) ==
  LET n == Len(a)
      Borrow(i) ==
        \E j \in (i + 1)..n :
          /\ a[j] < b[j]
          /\ \A k \in (i + 1)..(j - 1) : a[k] = b[k]
      B(i) == IF Borrow(i) THEN 1 ELSE 0
  IN  [i \in 1..n |-> (a[i] - b[i] - B(i) + 2) % 2]

\* a < b on digit strings of equal length
BitsLess(a, b) ==
  \E i \in 1..Len(a) :
    /\ a[i] < b[i]
    /\ \A j \in 1..(i - 1) : a[j] = b[j]

\* sign * b * 2^e (b a digit string with first digit 1, plus a non-zero rest
\* below it when sticky), rounded to Precision digits, ties to even
RoundBits(sign, b, e, sticky) ==
  IF Len(b) <= Precision THEN
    [cls |-> "finite", sign |-> sign, exp |-> e - (Precision - Len(b)),
     bits |-> b \o Zeros(Precision - Len(b))]
  ELSE
    LET kept  == SubSeq(b, 1, Precision)
        half  == b[Precision + 1]
        below == sticky \/ \E i \in (Precision + 2)..Len(b) : b[i] = 1
        up    == half = 1 /\ (below \/ kept[Precision] = 1)
        e2    == e + (Len(b) - Precision)
        inc   == StripZeros(AddBits(kept, Zeros(Precision), 1))
    IN  IF ~up THEN
          [cls |-> "finite", sign |-> sign, exp |-> e2, bits |-> kept]
        ELSE IF Len(inc) > Precision THEN
          [cls |-> "finite", sign |-> sign, exp |-> e2 + 1,
           bits |-> SubSeq(inc, 1, Precision)]
        ELSE
          [cls |-> "finite", sign |-> sign, exp |-> e2, bits |-> inc]

\* the float nearest to h / 100, for h > 0
NearestDouble(sign, h) ==
  LET q    == h \div 100
      r    == h % 100
      ib   == NatBits(q)
      n    == IF q > 0 THEN Precision + 1 - Len(ib)
              ELSE LeadingFracZeros(r) + Precision + 1
      fb   == FracBits(r, n)
      all  == StripZeros(ib \o fb.bits)
  IN  RoundBits(sign, all, 0 - n, fb.rest)

\* the float of an amount
ToDouble(x) ==
  IF x.cls = "nan" THEN [cls |-> "nan"]
  ELSE IF x.cls = "inf"
    THEN [cls |-> "inf", sign |-> IF x.hundredths < 0 THEN -1 ELSE 1]
  ELSE IF x.hundredths = 0 THEN [cls |-> "zero"]
  ELSE IF x.hundredths < 0 THEN NearestDouble(-1, 0 - x.hundredths)
  ELSE NearestDouble(1, x.hundredths)

NumNeg(x) ==
  IF x.cls \in {"inf", "finite"} THEN [x EXCEPT !.sign = 0 - x.sign] ELSE x

\* x + y
NumAdd(x, y) ==
  IF x.cls = "nan" \/ y.cls = "nan" THEN [cls |-> "nan"]
  ELSE IF x.cls = "inf"
    THEN (IF y.cls = "inf" /\ y.sign # x.sign THEN [cls |-> "nan"] ELSE x)
  ELSE IF y.cls = "inf" THEN y
  ELSE IF x.cls = "zero" THEN y
  ELSE IF y.cls = "zero" THEN x
  ELSE
    LET e  == IF x.exp < y.exp THEN x.exp ELSE y.exp
        xa == x.bits \o Zeros(x.exp - e)
        ya == y.bits \o Zeros(y.exp - e)
        n  == IF Len(xa) > Len(ya) THEN Len(xa) ELSE Len(ya)
        xb == PadLeft(xa, n)
        yb == PadLeft(ya, n)
    IN  IF x.sign = y.sign
          THEN RoundBits(x.sign, StripZeros(AddBits(xb, yb, 0)), e, FALSE)
        ELSE IF xb = yb THEN [cls |-> "zero"]
        ELSE IF BitsLess(xb, yb)
          THEN RoundBits(y.sign, StripZeros(SubBits(yb, xb)), e, FALSE)
        ELSE RoundBits(x.sign, StripZeros(SubBits(xb, yb)), e, FALSE)

\* x - y
NumSub(x, y) == NumAdd(x, NumNeg(y))

\* x == y
NumEq(x, y) == x.cls # "nan" /\ y.cls # "nan" /\ x = y

(* ------------------------------------------------------------------ *)
(* FinanceApp: balance and summary                                     *)
(* ------------------------------------------------------------------ *)

\* the int 0 the sums start from
Zero == [cls |-> "zero"]

\* mode=None
None == <<>>

\* the loop of calculate_balance from position i on
RECURSIVE BalanceLoop(_, _, _)
BalanceLoop(ts, i, balance) ==
  IF i > Len(ts) THEN balance
  ELSE IF ts[i].transaction_type = sCredit
    THEN BalanceLoop(ts, i + 1, NumAdd(balance, ToDouble(ts[i].amount)))
  ELSE BalanceLoop(ts, i + 1, NumSub(balance, ToDouble(ts[i].amount)))

calculate_balance(ts, mode) ==
  LET ModeIs(t) == t.mode = mode
  IN  BalanceLoop(IF mode # None THEN SelectSeq(ts, ModeIs) ELSE ts, 1, Zero)

\* the loop of calculate_summary from position i on
RECURSIVE SummaryLoop(_, _, _)
SummaryLoop(ts, i, acc) ==
  IF i > Len(ts) THEN acc
  ELSE
    LET t == ts[i]
        a == ToDouble(t.amount)
    IN  IF t.transaction_type = sCredit THEN
          IF t.mode = sOnline THEN
            SummaryLoop(ts, i + 1,
              [acc EXCEPT !.total_credits = NumAdd(@, a),
                          !.online_credits = NumAdd(@, a)])
          ELSE
            SummaryLoop(ts, i + 1,
              [acc EXCEPT !.total_credits = NumAdd(@, a),
                          !.cash_credits = NumAdd(@, a)])
        ELSE
          IF t.mode = sOnline THEN
            SummaryLoop(ts, i + 1,
              [acc EXCEPT !.total_debits = NumAdd(@, a),
                          !.online_debits = NumAdd(@, a)])
          ELSE
            SummaryLoop(ts, i + 1,
              [acc EXCEPT !.total_debits = NumAdd(@, a),
                          !.cash_debits = NumAdd(@, a)])

calculate_summary(ts) ==
  SummaryLoop(ts, 1,
    [total_credits |-> Zero, total_debits |-> Zero,
     online_credits |-> Zero, online_debits |-> Zero,
     cash_credits |-> Zero, cash_debits |-> Zero])

\* update_summary_labels: the numbers the nine labels are formatted from
update_summary_labels(ts) ==
  [summary |-> calculate_summary(ts),
   current_balance |-> calculate_balance(ts, None),
   online_balance |-> calculate_balance(ts, sOnline),
   cash_balance |-> calculate_balance(ts, sCash)]

(* ------------------------------------------------------------------ *)
(* SpecSummary: the summary of a list that was loaded                  *)
(*   ret: the numbers of the labels                                    *)
(* ------------------------------------------------------------------ *)

MaxSummaryRows == 3

a0p10 == <<"0",".","1","0">>

a0p20 == <<"0",".","2","0">>

a0p30 == <<"0",".","3","0">>

aNan == <<"n","a","n">>

SummaryLineInputs ==
  { CsvWriteRow(<<d20240105, sCredit, sSalary, sRent, a0p10, <<>>, sOnline>>),
    CsvWriteRow(<<d20240105, sDebit, sFood, sRent, a0p30, <<>>, sCash>>),
    CsvWriteRow(<<d20240220, sCredit, sSalary, sRent, a0p20, <<>>, sCash>>),
    CsvWriteRow(<<d20240220, sDebit, sFood, sRent, a2p50, <<>>, sOnline>>),
    CsvWriteRow(<<d20240220, sCredit, sSalary, sRent, a10, <<>>, sBank>>),
    CsvWriteRow(<<d20240220, sTransfer, sFood, sRent, a10, <<>>, sOnline>>),
    CsvWriteRow(<<d20240220, sCredit, sSalary, sRent, aNan, <<>>, sOnline>>) }

SummaryFileInputs ==
  { FileOf(<<CsvWriteRow(expected_header)>> \o ls) :
      ls \in SeqsUpTo(SummaryLineInputs, MaxSummaryRows) }

InitSummary ==
  /\ disk \in SummaryFileInputs
  /\ transactions = load_transactions_from_csv(disk)
  /\ filtered_transactions = transactions
  /\ filters = DefaultFilters
  /\ categories = default_categories
  /\ editDialogs = <<>>
  /\ nextOid = 1
  /\ lastOp = NoOp
  /\ pc = "summary"
  /\ arg = <<>>
  /\ ret = <<>>

SummaryFrame ==
  UNCHANGED <<disk, transactions, filters, categories, editDialogs, nextOid,
              lastOp, arg>>

\* update_summary_labels() for the whole list
ShowSummary ==
  /\ pc = "summary"
  /\ ret' = update_summary_labels(transactions)
  /\ pc' = "shown"
  /\ UNCHANGED filtered_transactions
  /\ SummaryFrame

\* apply_filters with the widgets as __init__ left them, which ends with
\* update_summary_labels(self.filtered_transactions)
ShowFilteredSummary ==
  /\ pc = "shown"
  /\ filtered_transactions' = apply_filters(transactions, filters)
  /\ ret' = update_summary_labels(filtered_transactions')
  /\ pc' = "shown filtered"
  /\ SummaryFrame

NextSummary == ShowSummary \/ ShowFilteredSummary

SpecSummary == InitSummary /\ [][NextSummary]_vars

\* the list the numbers of ret were computed from
Summarised == IF pc = "shown" THEN transactions ELSE filtered_transactions

\* C13: total credits minus total debits equals the balance computed with
\* no mode filter.
C13_BalanceAdditivity ==
  pc \in {"shown", "shown filtered"} =>
    NumEq(NumSub(ret.summary.total_credits, ret.summary.total_debits),
          ret.current_balance)

\* the sum of amount over the transactions of ts from position i on that
\* have the given type and mode
RECURSIVE SumOver(_, _, _, _, _)
SumOver(ts, i, type, mode, sum) ==
  IF i > Len(ts) THEN sum
  ELSE IF ts[i].transaction_type = type /\ ts[i].mode = mode
    THEN SumOver(ts, i + 1, type, mode, NumAdd(sum, ToDouble(ts[i].amount)))
  ELSE SumOver(ts, i + 1, type, mode, sum)

\* C14: total credits = online credits + cash credits, total debits =
\* online debits + cash debits, and each of the four per-mode sums is the
\* sum of amount over exactly the transactions of that type and mode.
C14_ModePartition ==
  pc \in {"shown", "shown filtered"} =>
    LET sm == ret.summary
        ts == Summarised
    IN  /\ NumEq(sm.total_credits, NumAdd(sm.online_credits, sm.cash_credits))
        /\ NumEq(sm.total_debits, NumAdd(sm.online_debits, sm.cash_debits))
        /\ NumEq(sm.online_credits, SumOver(ts, 1, sCredit, sOnline, Zero))
        /\ NumEq(sm.cash_credits, SumOver(ts, 1, sCredit, sCash, Zero))
        /\ NumEq(sm.online_debits, SumOver(ts, 1, sDebit, sOnline, Zero))
        /\ NumEq(sm.cash_debits, SumOver(ts, 1, sDebit, sCash, Zero))

(* ------------------------------------------------------------------ *)
(* More claims about the codec, checked under SpecCodec                *)
(* ------------------------------------------------------------------ *)

\* C15: loading when there is no transactions file gives the empty list and
\* shows neither a warning nor an error.
C15_MissingFileEmpty ==
  (pc = "loaded" /\ ~disk.exists) =>
    /\ transactions = <<>>
    /\ ret.warning = FALSE
    /\ ret.errors = 0

\* load ran with no file there
C15_Witness ==
  /\ pc = "loaded"
  /\ disk = NoFile
  /\ transactions = <<>>
  /\ ret = [warning |-> FALSE, errors |-> 0]

(* ------------------------------------------------------------------ *)
(* More claims about the handlers, checked under Spec                  *)
(* ------------------------------------------------------------------ *)

\* the position of the object oid in ts (0 if it is not there)
PosOf(ts, oid) ==
  IF HoldsOid(ts, oid) THEN CHOOSE i \in 1..Len(ts) : ts[i].oid = oid ELSE 0

\* C16: the list is in insertion order. An add puts the new transaction at
\* the end, a replace puts the new object where the old one was, and in
\* every step the transactions that stay keep their relative order, whatever
\* their dates.
C16_InsertionOrder ==
  [][ /\ (lastOp'.op = "add" /\ lastOp'.valid /\ lastOp'.error = "none") =>
           /\ Len(transactions') = Len(transactions) + 1
           /\ SubSeq(transactions', 1, Len(transactions)) = transactions
           /\ transactions'[Len(transactions')].oid = lastOp'.target
           /\ transactions'[Len(transactions')].date = lastOp'.req.date
      /\ (lastOp'.op = "save_edit" /\ lastOp'.valid /\ lastOp'.error = "none") =>
           /\ Len(transactions') = Len(transactions)
           /\ \A k \in 1..Len(transactions) :
                \/ transactions'[k] = transactions[k]
                \/ /\ transactions[k].oid = lastOp'.target
                   /\ transactions'[k].date = lastOp'.req.date
      /\ \A i, j \in 1..Len(transactions') :
           LET p == PosOf(transactions, transactions'[i].oid)
               q == PosOf(transactions, transactions'[j].oid)
           IN  (i < j /\ p > 0 /\ q > 0) => p < q ]_vars

\* a transaction dated 2024-01-05 was added after one dated 2024-02-20 and
\* stands last
C16_Witness ==
  /\ lastOp.op = "add" /\ lastOp.valid /\ lastOp.error = "none"
  /\ Len(transactions) >= 2
  /\ transactions[1].date = d20240220
  /\ transactions[Len(transactions)].oid = lastOp.target
  /\ transactions[Len(transactions)].date = d20240105

(* ------------------------------------------------------------------ *)
(* SpecView: the application with the filter widgets changed only      *)
(* right before Apply Filters is pressed                               *)
(* ------------------------------------------------------------------ *)

OldLine ==
  CsvWriteRow(<<d20240105, sDebit, sFood, sRent, a2p50, <<>>, sCash>>)

\* transactions.csv as the application finds it at startup
ViewFileInputs ==
  AppFileInputs
    \cup { FileOf(<<CsvWriteRow(expected_header), OldLine, GoodLine>>) }

\* FinanceApp.__init__
InitView ==
  /\ disk \in ViewFileInputs
  /\ transactions = load_transactions_from_csv(disk)
  /\ filtered_transactions = transactions
  /\ filters = DefaultFilters
  /\ categories = default_categories
  /\ editDialogs = <<>>
  /\ nextOid = 1
  /\ lastOp = Ran("init", TRUE, "none", NoRequest, 0)
  /\ pc = "app"
  /\ arg = <<>>
  /\ ret = <<>>

\* the user fills the filter widgets and presses Apply Filters
SetAndApplyFilters ==
  /\ pc = "app"
  /\ \E f \in FilterInputs :
       /\ filters' = f
       /\ filtered_transactions' = apply_filters(transactions, f)
  /\ lastOp' = Ran("apply_filters", TRUE, "none", NoRequest, 0)
  /\ UNCHANGED <<disk, transactions, categories, nextOid, editDialogs>>
  /\ PureFrame

NextView ==
  \/ AddTransaction
  \/ OpenEdit
  \/ CloseEdit
  \/ SaveEdit
  \/ DeleteTransaction
  \/ ClearAll
  \/ SetAndApplyFilters
  \/ ClearFilters

SpecView == InitView /\ [][NextView]_vars

\* C17: in every state from startup on, the rows shown are the filter of the
\* list under the values of the filter widgets.
C17_ViewIsFilter ==
  filtered_transactions = apply_filters(transactions, filters)

(* ------------------------------------------------------------------ *)
(* The date range of a filter result, checked under SpecFilter         *)
(* ------------------------------------------------------------------ *)

\* C18: whenever both the start and the end bound parse as dates, every
\* transaction of the filter result has a date d with start <= d <= end,
\* whatever date strings the loaded list holds.
C18_ResultWithinRange ==
  (/\ pc = "filtered"
   /\ Strptime(filters.start_date).ok
   /\ Strptime(filters.end_date).ok) =>
    \A i \in 1..Len(filtered_transactions) :
      LET d == Strptime(filtered_transactions[i].date)
      IN  /\ d.ok
          /\ DateKey(Strptime(filters.start_date)) <= DateKey(d)
          /\ DateKey(d) <= DateKey(Strptime(filters.end_date))

(* ------------------------------------------------------------------ *)
(* The balances per mode, checked under SpecSummary                    *)
(* ------------------------------------------------------------------ *)

\* C19: for every loaded list, the Online balance plus the Cash balance
\* equals the total balance.
C19_BalancesAddUp ==
  pc = "shown" =>
    NumEq(NumAdd(ret.online_balance, ret.cash_balance), ret.current_balance)

====
